---------------------------- MODULE Spec2Model ----------------------------
(***************************************************************************)
(* TBHTTPClient (tb_device_http.py): the publish queue worker, the two     *)
(* long-poll subscription workers and the facade calls that start and stop *)
(* them.  Threads are interleaved at the points where they read or write   *)
(* shared state (the queue, the stop events, the Thread objects).          *)
(***************************************************************************)
EXTENDS Integers, Sequences, FiniteSets, TLC

(* ------------------------------ bounds -------------------------------- *)
MaxTasks == 3
MaxFailures == 2
MaxUpdates == 1
MaxExtra == 2

(* ------------------------- program constants ------------------------- *)
\* __config['timeout'], in seconds
ClientTimeout == 30

(* --------------------------- value domains ---------------------------- *)
Roles == {"publish", "attributes", "rpc"}
SubRoles == {"attributes", "rpc"}

\* what session.post / session.get can do: answer with a status and a body,
\* or raise a transport exception
Bodies == {"empty", "json", "garbage"}
PostResponses ==
    {[kind |-> "response", status |-> 200, body |-> b] : b \in Bodies}
    \cup {[kind |-> "response", status |-> s, body |-> "empty"] : s \in {401, 500}}
    \cup {[kind |-> "error", status |-> 0, body |-> e] :
             e \in {"ConnectionError", "Timeout", "TooManyRedirects"}}
GetResponses ==
    {[kind |-> "response", status |-> 200, body |-> b] : b \in {"json", "garbage"}}
    \cup {[kind |-> "response", status |-> s, body |-> "empty"] : s \in {408, 504, 500}}
    \cup {[kind |-> "error", status |-> 0, body |-> e] : e \in {"ConnectionError"}}
NoResponse == [kind |-> "none", status |-> 0, body |-> "empty"]

\* a datetime: its calendar fields counted in seconds as if they were UTC
\* (wall), and its tzinfo
Telemetry == {"t1", "t2"}
Timezones == {"naive", "utc", "+01:00"}
Timestamps == {[wall |-> 7200, tz |-> z] : z \in Timezones}
QueuedTelemetry == {"t1"}
QueuedTimestamps == {[wall |-> 7200, tz |-> "utc"]}
Callbacks == {"cb1"}
None == "None"

NoTask == [id |-> 0, ts |-> 0, values |-> None]
NoRequest == [params_timeout |-> 0, timeout |-> 0]

VARIABLES
    queue,       \* worker['publish']['queue']
    stop_event,  \* worker[r]['stop_event']
    started,     \* worker[r]['thread']._started: start() was called on the Thread
    consumers,   \* number of consumer loops of role r that are executing
    pc,          \* position of the thread of role r in its target function
    task,        \* __publish_worker: local task (endpoint popped)
    endpoint,    \* __publish_worker: local endpoint
    callback,    \* worker[r]['callback'] (None when the key is absent)
    cb,          \* __subscription_worker: local callback
    response,    \* __subscription_worker: local response
    nextId,      \* identity of the next dict built by send_telemetry
    failures,    \* failed deliveries of the publish worker so far
    attempts,    \* history: publish_data calls of the publish worker, in order
    updates,     \* history: callback invocations, in order, per role
    extra,       \* history: polls started since the pending unsubscribe, counted
                 \* up to MaxExtra; -1 when no unsubscribe is pending
    sent,        \* history: the dicts send_telemetry has put, in order
    request,     \* __subscription_worker: the last request it issued
    lastCall     \* the last facade call and how it ended

vars == <<queue, stop_event, started, consumers, pc, task, endpoint, callback,
          cb, response, nextId, failures, attempts, updates, extra, sent,
          request, lastCall>>

pubVars == <<queue, task, endpoint, nextId, failures, attempts, sent>>
subVars == <<callback, cb, response, updates, extra, request>>

Call(op, arg, exc, val) == [op |-> op, arg |-> arg, exc |-> exc, val |-> val]

(* ------------------------- transport and helpers ----------------------- *)

\* response.raise_for_status(): HTTPError for 4xx and 5xx
RaiseForStatus(resp) ==
    IF resp.status >= 400 /\ resp.status < 600 THEN "HTTPError" ELSE "none"

\* response.json()
Json(resp) == IF resp.body = "json" THEN "none" ELSE "JSONDecodeError"

\* publish_data: the exception it raises, "none" when it returns
publish_data(resp) ==
    IF resp.kind = "error" THEN resp.body
    ELSE IF RaiseForStatus(resp) # "none" THEN RaiseForStatus(resp)
    ELSE IF resp.body # "empty" THEN Json(resp)
    ELSE "none"

\* test_connection: exc is the exception that escapes, val the returned bool
\* ("True" / "False"; None when it raises)
test_connection_http_ok(resp) ==
    LET error == publish_data(resp) IN
    IF error \in {"Timeout", "ConnectionError"} THEN [exc |-> "none", val |-> "False"]
    ELSE IF error \in {"HTTPError", "none"} THEN [exc |-> "none", val |-> "True"]
    ELSE [exc |-> error, val |-> None]
test_connection(resp) ==
    LET error == publish_data(resp) IN
    IF error \in {"Timeout", "ConnectionError"} THEN [exc |-> "none", val |-> "False"]
    ELSE IF error = "HTTPError" THEN [exc |-> "none", val |-> "False"]
    ELSE IF error = "none" THEN [exc |-> "none", val |-> "True"]
    ELSE [exc |-> error, val |-> None]

\* queue.Queue.put / get
QueueFront(q, item) == <<item>> \o q
QueuePut(q, item) == Append(q, item)

\* Thread.start() on the one Thread object __init__ built for role r:
\* RuntimeError when that object was started before (the facade calls are
\* made one after the other)
ThreadStartAgain(r, first) ==
    /\ started' = [started EXCEPT ![r] = TRUE]
    /\ consumers' = [consumers EXCEPT ![r] = @ + 1]
    /\ pc' = [pc EXCEPT ![r] = first]
ThreadStart(r, first) ==
    /\ ~started[r]
    /\ started' = [started EXCEPT ![r] = TRUE]
    /\ consumers' = [consumers EXCEPT ![r] = @ + 1]
    /\ pc' = [pc EXCEPT ![r] = first]

\* the target function of role r returns, or dies with an exception; its
\* locals go with it
ThreadEnd(r, how) ==
    /\ pc' = [pc EXCEPT ![r] = how]
    /\ consumers' = [consumers EXCEPT ![r] = @ - 1]

SubEnd(r, how) ==
    /\ ThreadEnd(r, how)
    /\ cb' = [cb EXCEPT ![r] = None]
    /\ response' = [response EXCEPT ![r] = NoResponse]
    /\ request' = [request EXCEPT ![r] = NoRequest]
    /\ extra' = [extra EXCEPT ![r] = -1]

Init ==
    /\ queue = <<>>
    /\ stop_event = [r \in Roles |-> FALSE]
    /\ started = [r \in Roles |-> FALSE]
    /\ consumers = [r \in Roles |-> 0]
    /\ pc = [r \in Roles |-> "new"]
    /\ task = NoTask
    /\ endpoint = None
    /\ callback = [r \in SubRoles |-> None]
    /\ cb = [r \in SubRoles |-> None]
    /\ response = [r \in SubRoles |-> NoResponse]
    /\ nextId = 1
    /\ failures = 0
    /\ attempts = <<>>
    /\ updates = [r \in SubRoles |-> <<>>]
    /\ extra = [r \in SubRoles |-> -1]
    /\ sent = <<>>
    /\ request = [r \in SubRoles |-> NoRequest]
    /\ lastCall = Call("init", None, "none", None)

(* --------------------------- publish: facade --------------------------- *)

\* start_publish_worker, lines 89-92
StartPublish(op) ==
    /\ stop_event' = [stop_event EXCEPT !["publish"] = FALSE]
    /\ \/ /\ ThreadStart("publish", "probe")
          /\ lastCall' = Call(op, None, "none", None)
       \/ /\ started["publish"]
          /\ lastCall' = Call(op, None, "RuntimeError", None)
          /\ UNCHANGED <<started, consumers, pc>>

start_publish_worker ==
    /\ StartPublish("start_publish_worker")
    /\ UNCHANGED <<pubVars, subVars>>

stop_publish_worker ==
    /\ stop_event' = [stop_event EXCEPT !["publish"] = TRUE]
    /\ lastCall' = Call("stop_publish_worker", None, "none", None)
    /\ UNCHANGED <<started, consumers, pc, pubVars, subVars>>

\* a call of test_connection() from the user's thread
TestConnection(resp) ==
    /\ lastCall' = Call("test_connection", resp,
                        test_connection(resp).exc, test_connection(resp).val)
    /\ UNCHANGED <<stop_event, started, consumers, pc, pubVars, subVars>>

\* connect, lines 153-157
connect(resp) ==
    LET tc == test_connection(resp) IN
    /\ IF tc.exc # "none"
       THEN /\ lastCall' = Call("connect", None, tc.exc, None)
            /\ UNCHANGED <<stop_event, started, consumers, pc>>
       ELSE IF tc.val = "True"
       THEN StartPublish("connect")
       ELSE /\ lastCall' = Call("connect", None, "none", None)
            /\ UNCHANGED <<stop_event, started, consumers, pc>>
    /\ UNCHANGED <<pubVars, subVars>>

\* lines 196-200: timestamp.replace(tzinfo=timezone.utc) keeps the calendar
\* fields and drops the offset; .timestamp()*1000 is then wall*1000
Payload(T, values) == [ts |-> T.wall * 1000, values |-> values]

\* send_telemetry(telemetry, timestamp, queued=False), lines 196-200, 205: the
\* call publishes itself and what publish_data raises reaches the caller
send_telemetry_now(T, values, resp) ==
    /\ lastCall' = Call("send_telemetry_now",
                        [timestamp |-> T, values |-> values,
                         published |-> <<[endpoint |-> "telemetry",
                                          data |-> Payload(T, values)]>>,
                         error |-> publish_data(resp)],
                        publish_data(resp), None)
    /\ UNCHANGED <<stop_event, started, consumers, pc, pubVars, subVars>>

\* send_telemetry(telemetry, timestamp, queued=True), lines 196-203
send_telemetry_sync(T, values) ==
    \E resp \in PostResponses : send_telemetry_now(T, values, resp)
send_telemetry(T, values) ==
    LET payload == Payload(T, values) IN
    /\ nextId <= MaxTasks
    /\ queue' = QueuePut(queue, [id |-> nextId, ts |-> payload.ts,
                                 values |-> payload.values, endpoint |-> "telemetry"])
    /\ sent' = Append(sent, [id |-> nextId, ts |-> payload.ts,
                             values |-> payload.values, endpoint |-> "telemetry"])
    /\ nextId' = nextId + 1
    /\ lastCall' = Call("send_telemetry", None, "none", None)
    /\ UNCHANGED <<stop_event, started, consumers, pc, task, endpoint,
                   failures, attempts, subVars>>

(* --------------------------- publish: worker --------------------------- *)

\* lines 103-106: the probe on entry
WorkerProbeContinue(resp) ==
    /\ pc["publish"] = "probe"
    /\ pc' = [pc EXCEPT !["publish"] = "get"]
    /\ UNCHANGED <<stop_event, started, consumers, pubVars, subVars, lastCall>>
WorkerProbe(resp) ==
    /\ pc["publish"] = "probe"
    /\ LET tc == test_connection(resp) IN
        IF tc.exc # "none" THEN ThreadEnd("publish", "crashed")
        ELSE IF tc.val = "True"
        THEN pc' = [pc EXCEPT !["publish"] = "get"] /\ UNCHANGED consumers
        ELSE ThreadEnd("publish", "probe_failed")
    /\ UNCHANGED <<stop_event, started, pubVars, subVars, lastCall>>

\* line 109 returns a task; line 114 pops its endpoint
WorkerGet ==
    /\ pc["publish"] = "get"
    /\ queue # <<>>
    /\ LET t == Head(queue) IN
        /\ task' = [id |-> t.id, ts |-> t.ts, values |-> t.values]
        /\ endpoint' = t.endpoint
    /\ queue' = Tail(queue)
    /\ pc' = [pc EXCEPT !["publish"] = "publish"]
    /\ UNCHANGED <<stop_event, started, consumers, nextId, failures, attempts,
                   sent, subVars, lastCall>>

\* line 109 times out: queue.Empty
WorkerEmpty ==
    /\ pc["publish"] = "get"
    /\ queue = <<>>
    /\ pc' = [pc EXCEPT !["publish"] = "empty"]
    /\ UNCHANGED <<stop_event, started, consumers, pubVars, subVars, lastCall>>

\* lines 111-113
StopNever == FALSE
StopSeen == stop_event["publish"]
WorkerCheckStop ==
    /\ pc["publish"] = "empty"
    /\ IF StopSeen
       THEN ThreadEnd("publish", "done")
       ELSE pc' = [pc EXCEPT !["publish"] = "get"] /\ UNCHANGED consumers
    /\ UNCHANGED <<stop_event, started, pubVars, subVars, lastCall>>

\* lines 123-125: the else branch, the task is done
PublishOk ==
    /\ pc' = [pc EXCEPT !["publish"] = "get"]
    /\ task' = NoTask
    /\ endpoint' = None
    /\ UNCHANGED failures

\* lines 117-119: the except branch is entered with the task in hand
PublishFailedDiscard ==
    /\ pc' = [pc EXCEPT !["publish"] = "get"]
    /\ task' = NoTask
    /\ endpoint' = None
    /\ failures' = failures + 1
PublishFailed ==
    /\ pc' = [pc EXCEPT !["publish"] = "failed"]
    /\ failures' = failures + 1
    /\ UNCHANGED <<task, endpoint>>

\* lines 115-125: the delivery attempt; the transport fails at most
\* MaxFailures times in a run
WorkerPublish ==
    /\ pc["publish"] = "publish"
    /\ \E resp \in PostResponses :
        LET error == publish_data(resp) IN
        /\ error # "none" => failures < MaxFailures
        /\ attempts' = Append(attempts, [id |-> task.id, endpoint |-> endpoint,
                                         ok |-> error = "none"])
        /\ IF error = "none" THEN PublishOk ELSE PublishFailed
    /\ UNCHANGED <<queue, stop_event, started, consumers, nextId, sent, subVars,
                   lastCall>>

\* lines 120-122: task.update, queue.put, sleep
RequeueLost(t, e) == queue' = queue
RequeueFront(t, e) ==
    queue' = <<[id |-> t.id, ts |-> t.ts, values |-> t.values, endpoint |-> e]>> \o queue
Requeue(t, e) ==
    queue' = QueuePut(queue, [id |-> t.id, ts |-> t.ts, values |-> t.values,
                              endpoint |-> e])
WorkerRequeue ==
    /\ pc["publish"] = "failed"
    /\ Requeue(task, endpoint)
    /\ task' = NoTask
    /\ endpoint' = None
    /\ pc' = [pc EXCEPT !["publish"] = "get"]
    /\ UNCHANGED <<stop_event, started, consumers, nextId, failures, attempts,
                   sent, subVars, lastCall>>

NextPub ==
    \/ start_publish_worker
    \/ stop_publish_worker
    \/ \E resp \in PostResponses : TestConnection(resp)
    \/ \E resp \in PostResponses : connect(resp)
    \/ \E T \in QueuedTimestamps, values \in QueuedTelemetry : send_telemetry(T, values)
    \/ \E resp \in PostResponses : WorkerProbe(resp)
    \/ WorkerGet
    \/ WorkerEmpty
    \/ WorkerCheckStop
    \/ WorkerPublish
    \/ WorkerRequeue

WorkerStep ==
    \/ \E resp \in PostResponses : WorkerProbe(resp)
    \/ WorkerGet
    \/ WorkerEmpty
    \/ WorkerCheckStop
    \/ WorkerPublish
    \/ WorkerRequeue

SpecPub == Init /\ [][NextPub]_vars

\* the worker is a thread of its own: the scheduler keeps running it
SpecPubFair == SpecPub /\ WF_vars(WorkerStep)

(* ------------------------- subscriptions: facade ----------------------- *)

SubscribeOp(r) == IF r = "attributes" THEN "subscribe_to_attributes" ELSE "subscribe_to_rpc"
UnsubscribeOp(r) ==
    IF r = "attributes" THEN "unsubscribe_from_attributes" ELSE "unsubscribe_from_rpc"

\* subscribe_to_attributes, lines 263-271; subscribe_to_rpc, lines 278-286
subscribe(r, c) ==
    /\ callback' = IF c # None THEN [callback EXCEPT ![r] = c] ELSE callback
    /\ stop_event' = [stop_event EXCEPT ![r] = FALSE]
    /\ extra' = [extra EXCEPT ![r] = -1]
    /\ \/ /\ ThreadStart(r, "start")
          /\ lastCall' = Call(SubscribeOp(r), None, "none", None)
       \/ /\ started[r]
          /\ lastCall' = Call(SubscribeOp(r), None, "RuntimeError", None)
          /\ UNCHANGED <<started, consumers, pc>>
    /\ UNCHANGED <<pubVars, cb, response, updates, request>>

SubRunning(r) == pc[r] \in {"start", "loop", "request", "resp", "exit"}

\* unsubscribe_from_attributes, lines 273-276; unsubscribe_from_rpc, lines 288-291
SetStopOther(r) ==
    stop_event' = [stop_event EXCEPT ![CHOOSE q \in SubRoles : q # r] = TRUE]
SetStop(r) == stop_event' = [stop_event EXCEPT ![r] = TRUE]
unsubscribe(r) ==
    /\ SetStop(r)
    /\ extra' = [extra EXCEPT ![r] = IF SubRunning(r) /\ @ = -1 THEN 0 ELSE @]
    /\ lastCall' = Call(UnsubscribeOp(r), None, "none", None)
    /\ UNCHANGED <<started, consumers, pc, pubVars, callback, cb, response, updates,
                   request>>

(* ------------------------- subscriptions: worker ----------------------- *)

\* lines 238-241: no callback registered, the worker asks itself to stop
SubStart(r) ==
    /\ pc[r] = "start"
    /\ stop_event' = IF callback[r] = None
                     THEN [stop_event EXCEPT ![r] = TRUE] ELSE stop_event
    /\ cb' = [cb EXCEPT ![r] = callback[r]]
    /\ pc' = [pc EXCEPT ![r] = "loop"]
    /\ UNCHANGED <<started, consumers, pubVars, callback, response, updates,
                   extra, request, lastCall>>

\* line 250: the loop condition
SubLoop(r) ==
    /\ pc[r] = "loop"
    /\ pc' = [pc EXCEPT ![r] = IF stop_event[r] THEN "exit" ELSE "request"]
    /\ UNCHANGED <<stop_event, started, consumers, pubVars, subVars, lastCall>>

\* lines 242-244: params (timeout is None, the thread gets no such kwarg)
PollParams == [timeout |-> ClientTimeout * 1000]

\* line 251: session.get(url, params=params, timeout=params['timeout'])
PollRequest == [params_timeout |-> PollParams.timeout, timeout |-> PollParams.timeout]

\* line 251: the long-poll request is issued and comes back (or raises); the
\* server has at most MaxUpdates updates to push per channel
SubPoll(r, resp) ==
    /\ pc[r] = "request"
    /\ resp.status = 200 => Len(updates[r]) < MaxUpdates
    /\ IF resp.kind = "error"
       THEN SubEnd(r, "crashed")
       ELSE /\ pc' = [pc EXCEPT ![r] = "resp"]
            /\ response' = [response EXCEPT ![r] = resp]
            /\ request' = [request EXCEPT ![r] = PollRequest]
            /\ extra' = [extra EXCEPT ![r] =
                             IF @ >= 0 /\ @ < MaxExtra THEN @ + 1 ELSE @]
            /\ UNCHANGED <<consumers, cb>>
    /\ UNCHANGED <<stop_event, started, pubVars, callback, updates, lastCall>>

\* lines 252-259: what the worker does with the response it holds
BenignOnly408(status) == status = 408
Benign(status) == status \in {408, 504}
Continue(r) ==
    /\ pc' = [pc EXCEPT ![r] = "loop"]
    /\ UNCHANGED <<consumers, cb, response, extra, request>>

\* line 252: the flag as the worker reads it once the request has returned
StopIgnored(r) == FALSE
StopObserved(r) == stop_event[r]
SubHandle(r) ==
    /\ pc[r] = "resp"
    /\ IF StopObserved(r)
       THEN /\ pc' = [pc EXCEPT ![r] = "exit"]
            /\ response' = [response EXCEPT ![r] = NoResponse]
            /\ UNCHANGED <<consumers, cb, extra, updates, request>>
       ELSE IF Benign(response[r].status)
       THEN Continue(r) /\ UNCHANGED updates
       ELSE IF RaiseForStatus(response[r]) # "none" \/ Json(response[r]) # "none"
       THEN SubEnd(r, "crashed") /\ UNCHANGED updates
       ELSE /\ updates' = [updates EXCEPT ![r] = Append(@, cb[r])]
            /\ Continue(r) \/ SubEnd(r, "crashed")
    /\ UNCHANGED <<stop_event, started, pubVars, callback, lastCall>>

\* line 260
SubExit(r) ==
    /\ pc[r] = "exit"
    /\ stop_event' = [stop_event EXCEPT ![r] = FALSE]
    /\ SubEnd(r, "done")
    /\ UNCHANGED <<started, pubVars, callback, updates, lastCall>>

SubStep(r) ==
    \/ SubStart(r)
    \/ SubLoop(r)
    \/ \E resp \in GetResponses : SubPoll(r, resp)
    \/ SubHandle(r)
    \/ SubExit(r)

NextSub ==
    \/ \E r \in SubRoles, c \in Callbacks \cup {None} : subscribe(r, c)
    \/ \E r \in SubRoles : unsubscribe(r)
    \/ \E r \in SubRoles : SubStart(r)
    \/ \E r \in SubRoles : SubLoop(r)
    \/ \E r \in SubRoles, resp \in GetResponses : SubPoll(r, resp)
    \/ \E r \in SubRoles : SubHandle(r)
    \/ \E r \in SubRoles : SubExit(r)

SpecSub == Init /\ [][NextSub]_vars

\* each subscription worker is a thread of its own, and every request returns
SpecSubFair == SpecSub /\ \A r \in SubRoles : WF_vars(SubStep(r))

(* ------------------ the queue under distinct payloads ------------------ *)

\* the publish worker fed with tasks that differ in their values
NextRetry ==
    \/ start_publish_worker
    \/ stop_publish_worker
    \/ \E T \in QueuedTimestamps, values \in Telemetry : send_telemetry(T, values)
    \/ \E resp \in PostResponses : WorkerProbe(resp)
    \/ WorkerGet
    \/ WorkerEmpty
    \/ WorkerCheckStop
    \/ WorkerPublish
    \/ WorkerRequeue

SpecRetry == Init /\ [][NextRetry]_vars

(* ---------------------- telemetry sent both ways ----------------------- *)

\* the producer alone: queued and immediate sends, with every timestamp and
\* every answer of the transport
NextNow ==
    \/ \E T \in Timestamps, values \in Telemetry : send_telemetry(T, values)
    \/ \E T \in Timestamps, values \in Telemetry, resp \in PostResponses :
          send_telemetry_now(T, values, resp)

SpecNow == Init /\ [][NextNow]_vars

(* ------------------- the three workers side by side -------------------- *)

\* the calls that start and stop the three workers, interleaved with the
\* workers; nothing is enqueued, one callback, no update is pushed
LifeCallbacks == {None, "cb1"}
LifePolls == {resp \in GetResponses : resp.status \in {408, 500}}
LifeProbes == {resp \in PostResponses : resp.body \in {"empty", "ConnectionError"}}
NextLife ==
    \/ start_publish_worker
    \/ stop_publish_worker
    \/ \E resp \in LifeProbes : connect(resp)
    \/ \E resp \in LifeProbes : WorkerProbe(resp)
    \/ WorkerEmpty
    \/ WorkerCheckStop
    \/ \E r \in SubRoles, c \in LifeCallbacks : subscribe(r, c)
    \/ \E r \in SubRoles : unsubscribe(r)
    \/ \E r \in SubRoles : SubStart(r)
    \/ \E r \in SubRoles : SubLoop(r)
    \/ \E r \in SubRoles, resp \in LifePolls : SubPoll(r, resp)
    \/ \E r \in SubRoles : SubHandle(r)
    \/ \E r \in SubRoles : SubExit(r)

SpecLife == Init /\ [][NextLife]_vars

(* ------------------------------ properties ----------------------------- *)

LoopPcs == {"get", "empty", "publish", "failed"}
WorkerRunning == pc["publish"] \in LoopPcs
Enqueued(id) == id < nextId
InQueue(id) == \E i \in DOMAIN queue : queue[i].id = id
Successes(id) == {i \in DOMAIN attempts : attempts[i].id = id /\ attempts[i].ok}
Failed(id) == \E i \in DOMAIN attempts : attempts[i].id = id /\ ~attempts[i].ok
Published(id) == Successes(id) # {}

\* C1: as long as no delivery attempt has failed, the publish worker hands the
\* tasks to publish_data in the order they were enqueued (the k-th call carries
\* the k-th enqueued task), none skipped, none twice.
C1_FifoWhenNoFailure ==
    failures = 0 => \A i \in DOMAIN attempts : attempts[i].id = i

C1_Witness ==
    failures = 0 /\ Len(attempts) >= 2 /\ queue # <<>>

\* C2: every task that was enqueued is in the queue, in the worker's hands, or
\* was published; a task whose attempt failed and that the worker has let go
\* of is back in the queue, behind everything that was queued at that time.
C2_NoTaskLost ==
    \A id \in 1..(nextId - 1) :
        /\ InQueue(id) \/ task.id = id \/ Published(id)
        /\ (Failed(id) /\ ~Published(id) /\ task.id # id) => InQueue(id)

C2_Witness ==
    \E id \in 1..(nextId - 1) :
        /\ Failed(id) /\ ~Published(id) /\ task.id # id
        /\ Len(queue) >= 2 /\ queue[Len(queue)].id = id

\* C3: no task is published twice, and, the scheduler running the worker and
\* the transport failing only finitely often, every enqueued task is published
\* unless the consumer loop is not running (a failed task is attempted again).
C3_ExactlyOnce ==
    /\ [](\A id \in 1..MaxTasks : Cardinality(Successes(id)) <= 1)
    /\ \A id \in 1..MaxTasks :
          (Enqueued(id) /\ WorkerRunning) ~> (Published(id) \/ ~WorkerRunning)

C3_Witness ==
    \E id \in 1..(nextId - 1) :
        Failed(id) /\ Published(id) /\ WorkerRunning /\ ~InQueue(id)

\* C4: the consumer loop exits only on a queue wait that timed out with the
\* stop flag set and with no task in hand; a timed out wait that finds the flag
\* set exits; and a stop request that stays pending while the queue stays empty
\* leads to the exit.
C4_StopTerminates ==
    /\ [][(WorkerRunning /\ pc'["publish"] = "done")
            => (pc["publish"] = "empty" /\ stop_event["publish"] /\ task = NoTask)]_vars
    /\ [][(WorkerCheckStop /\ stop_event["publish"]) => pc'["publish"] = "done"]_vars
    /\ (WorkerRunning /\ stop_event["publish"] /\ queue = <<>> /\ task = NoTask)
          ~> (pc["publish"] = "done" \/ ~stop_event["publish"] \/ queue # <<>>)

C4_Witness ==
    pc["publish"] = "done" /\ stop_event["publish"] /\ Len(attempts) >= 1

\* C6: start_publish_worker() while the consumer loop is running raises
\* nothing, starts nothing and leaves the stop flag and the queue as they were.
C6_StartWhileRunningIsNoOp ==
    [][(start_publish_worker /\ WorkerRunning)
        => /\ lastCall'.exc = "none"
           /\ stop_event' = stop_event
           /\ queue' = queue
           /\ consumers' = consumers]_vars

\* C7: test_connection() and connect() never raise, whatever the transport
\* does and whatever the state of the publish worker.
C7_NeverRaise ==
    lastCall.op \in {"test_connection", "connect"} => lastCall.exc = "none"

\* C8: test_connection() returns True exactly when the probe got a 2xx answer
\* whose body is empty or decodes, and returns False (raising nothing) on a
\* refused connection, a timeout, a 401 and any other 4xx/5xx status.
Probe2xx(resp) ==
    resp.kind = "response" /\ resp.status >= 200 /\ resp.status < 300
ProbeRefused(resp) ==
    \/ resp.kind = "error" /\ resp.body \in {"ConnectionError", "Timeout"}
    \/ resp.kind = "response" /\ ~Probe2xx(resp)
C8_TestConnectionResult ==
    lastCall.op = "test_connection" =>
        /\ lastCall.val = "True" <=>
              (Probe2xx(lastCall.arg) /\ lastCall.arg.body \in {"empty", "json"})
        /\ ProbeRefused(lastCall.arg) =>
              (lastCall.exc = "none" /\ lastCall.val = "False")

C8_Witness ==
    /\ lastCall.op = "test_connection"
    /\ lastCall.val = "True"
    /\ lastCall.arg.body = "empty"
    /\ WorkerRunning

\* C5: for each of the three roles, at most one consumer loop is executing.
C5_OneConsumerPerRole ==
    \A r \in Roles : consumers[r] <= 1

C5_Witness ==
    /\ \A r \in Roles : consumers[r] = 1
    /\ lastCall.exc = "RuntimeError"

\* C9: a worker whose stop flag is clear and that holds a 408 or a 504 answer
\* invokes no callback and goes back to the loop condition, from where it
\* issues the next poll; a worker that holds a 500 answer invokes no callback
\* and leaves the loop (by the HTTPError when its stop flag is clear).
C9_BenignTimeouts ==
    [][\A r \in SubRoles :
        /\ (SubHandle(r) /\ ~stop_event[r] /\ response[r].status \in {408, 504})
              => (pc'[r] = "loop" /\ updates' = updates /\ consumers' = consumers)
        /\ (SubLoop(r) /\ ~stop_event[r]) => pc'[r] = "request"
        /\ (SubHandle(r) /\ response[r].status = 500)
              => /\ updates' = updates
                 /\ pc'[r] \in {"crashed", "exit"}
                 /\ ~stop_event[r] => (pc'[r] = "crashed" /\ consumers'[r] = 0)
      ]_vars

C9_Witness ==
    \E r \in SubRoles :
        /\ pc[r] = "request"
        /\ response[r].status = 504
        /\ updates[r] = <<>>
        /\ pc[CHOOSE q \in SubRoles : q # r] = "crashed"

\* C10: once unsubscribe was called on a running subscription (and no later
\* subscribe call cleared the flag again), the worker starts at most one more
\* poll, and, every poll returning, its loop ends.
C10_AtMostOneMorePoll ==
    /\ [](\A r \in SubRoles : extra[r] <= 1)
    /\ \A r \in SubRoles :
          (extra[r] >= 0) ~> (pc[r] \in {"exit", "done", "crashed"} \/ ~stop_event[r])

C10_Witness ==
    \E r \in SubRoles : extra[r] = 1 /\ pc[r] = "exit"

\* C11: every subscribe call, whatever the state of the channel's worker,
\* returns without error and leaves exactly one consumer loop of the channel
\* running with the stop flag clear; that loop delivers to the callback the
\* call supplied.
C11_SubscribeAlwaysWorks ==
    [][\A r \in SubRoles : \A c \in Callbacks \cup {None} :
        subscribe(r, c)
          => /\ lastCall'.exc = "none"
             /\ consumers'[r] = 1
             /\ ~stop_event'[r]
             /\ (c # None /\ pc'[r] \in {"loop", "request", "resp"}) => cb'[r] = c
      ]_vars

\* C12: a worker that was started with no callback registered issues no
\* long-poll request: it is never at the request, nor holding a response.
C12_NoPollWithoutCallback ==
    \A r \in SubRoles :
        (pc[r] \in {"request", "resp"}) => cb[r] # None

\* C13: a queued send_telemetry call raises nothing in any state of the publish
\* worker: it appends exactly one task, the one it was given, at the tail of
\* the queue and leaves the tasks already queued as they were; no step of the
\* worker, whatever the transport answers, reports anything to a caller.
C13_QueuedSendNeverFails ==
    [][/\ \A T \in QueuedTimestamps, values \in QueuedTelemetry :
            send_telemetry(T, values)
              => /\ lastCall'.op = "send_telemetry"
                 /\ lastCall'.exc = "none"
                 /\ Len(queue') = Len(queue) + 1
                 /\ SubSeq(queue', 1, Len(queue)) = queue
                 /\ queue'[Len(queue')] = [id |-> nextId, ts |-> T.wall * 1000,
                                          values |-> values, endpoint |-> "telemetry"]
                 /\ UNCHANGED <<pc, task, endpoint>>
       /\ WorkerStep => UNCHANGED lastCall
      ]_vars

\* a call made after the worker died on its probe, queued behind another task
C13_Witness ==
    /\ lastCall.op = "send_telemetry"
    /\ pc["publish"] = "probe_failed"
    /\ Len(queue) >= 2

\* C15: a failed probe on entry ends the publish loop at once: the step takes
\* nothing from the queue, and a loop that ended on its probe has never held
\* a task nor attempted a delivery.
C15_ProbeFailureTerminates ==
    /\ [][\A resp \in PostResponses :
            (WorkerProbe(resp) /\ ~(Probe2xx(resp) /\ resp.body \in {"empty", "json"}))
              => /\ pc'["publish"] \in {"probe_failed", "crashed"}
                 /\ consumers'["publish"] = 0
                 /\ UNCHANGED <<queue, task, attempts>>
         ]_vars
    /\ [](pc["publish"] \in {"probe_failed", "crashed"}
            => task = NoTask /\ attempts = <<>>)

\* the loop ended on its probe with tasks waiting
C15_Witness ==
    /\ pc["publish"] = "probe_failed"
    /\ Len(queue) >= 2

\* the instant an aware datetime denotes, in milliseconds since the epoch:
\* its calendar fields taken back by its UTC offset
EpochMillis(T) == (T.wall - (IF T.tz = "+01:00" THEN 3600 ELSE 0)) * 1000

\* C14: send_telemetry(values, timestamp=T, queued=False) makes exactly one
\* publish call, to the telemetry endpoint, with the body {ts: T in epoch
\* milliseconds, values: values}; it leaves the queue alone and the caller gets
\* the transport's error.  (A naive T names no instant by itself and is left
\* unconstrained.)
C14_ImmediateSend ==
    [][\A T \in Timestamps, values \in Telemetry, resp \in PostResponses :
        send_telemetry_now(T, values, resp)
          => /\ Len(lastCall'.arg.published) = 1
             /\ lastCall'.arg.published[1].endpoint = "telemetry"
             /\ lastCall'.arg.published[1].data.values = values
             /\ T.tz # "naive" => lastCall'.arg.published[1].data.ts = EpochMillis(T)
             /\ lastCall'.exc = publish_data(resp)
             /\ UNCHANGED <<queue, sent>>
      ]_vars

\* C16: when the worker finds the stop flag set as its long-poll request has
\* returned, it drops the response, whatever its status or body: the callback
\* is not invoked and the loop goes to its exit.
C16_StaleResponseDiscarded ==
    [][\A r \in SubRoles :
        (SubHandle(r) /\ stop_event[r])
          => /\ updates' = updates
             /\ pc'[r] = "exit"
      ]_vars

\* a poll has come back with an update for the callback, the flag being set
C16_Witness ==
    \E r \in SubRoles :
        /\ pc[r] = "resp"
        /\ stop_event[r]
        /\ cb[r] # None
        /\ response[r].status = 200 /\ response[r].body = "json"

\* C17: whenever a subscription loop ends, by a stop it observed or by an
\* error, the stop flag of its channel is clear.
C17_FlagClearOnExit ==
    [][\A r \in SubRoles :
        (pc[r] \notin {"done", "crashed"} /\ pc'[r] \in {"done", "crashed"})
          => ~stop_event'[r]
      ]_vars

\* C18: after a failed delivery the worker puts the task back at the tail of
\* the queue with the endpoint and the payload it was enqueued with; the worker
\* takes tasks from the head only and nothing else reorders the queue, so the
\* tasks queued at that moment are all attempted before the retry.
C18_RetryAtTail ==
    [][/\ WorkerRequeue => queue' = Append(queue, sent[task.id])
       /\ WorkerGet => /\ queue' = Tail(queue)
                       /\ [id |-> task'.id, ts |-> task'.ts, values |-> task'.values,
                           endpoint |-> endpoint'] = Head(queue)
       /\ \/ queue' = queue
          \/ queue # <<>> /\ queue' = Tail(queue)
          \/ Len(queue') = Len(queue) + 1 /\ SubSeq(queue', 1, Len(queue)) = queue
      ]_vars

\* a task that failed waits at the tail, behind a task enqueued after it
C18_Witness ==
    /\ Len(queue) >= 2
    /\ queue[1].id > queue[Len(queue)].id
    /\ queue[1].values # queue[Len(queue)].values
    /\ \E i \in 1..Len(attempts) :
          ~attempts[i].ok /\ attempts[i].id = queue[Len(queue)].id

\* C19: every long-poll request carries the query parameter timeout = client
\* timeout in milliseconds, and its transport timeout is the same duration in
\* the transport's unit, seconds.
C19_PollTimeouts ==
    \A r \in SubRoles :
        request[r] # NoRequest
          => /\ request[r].params_timeout = ClientTimeout * 1000
             /\ request[r].timeout = ClientTimeout

\* C20: a publish loop that passed its probe never exits on a stop request
\* leaving in the queue a task that was enqueued before that request: when the
\* last call made on the client is stop_publish_worker, everything queued was
\* enqueued before it, and the loop then exits with an empty queue only.
C20_DrainBeforeExit ==
    [][(/\ WorkerCheckStop
        /\ pc'["publish"] = "done"
        /\ lastCall.op = "stop_publish_worker")
          => queue = <<>>
      ]_vars

=============================================================================
